---- MODULE Spec2Model ----
(***************************************************************************)
(* calculate_variable_window_bounds of pandas/_libs/window/indexers.pyx:   *)
(* one call of the function, from entry to return.  The outer while loop   *)
(* of the sweep advances one iteration per step.                           *)
(***************************************************************************)
EXTENDS Integers, Sequences, FiniteSets, TLC

\* ------------------------------------------------------------------ bounds
MaxN == 3          \* longest index (monotonic, or of arbitrary contents)
MaxVal == 4        \* monotonic index values are 0..MaxVal
MaxLongN == 5      \* longest strictly increasing index
MaxAnyVal == 2     \* index values of arbitrary contents are 0..MaxAnyVal
MaxWin == 3        \* largest window_size
MaxStep == 2       \* largest step_size
MaxMinPeriods == 2 \* largest min_periods

\* ------------------------------------------------------------------ inputs
\* An optional argument is << >> (None) or <<v>>.
None == << >>

Some(v) == <<v>>

\* closed: None, the four recognised strings, and one unrecognised string.
ClosedInputs == {"None", "left", "right", "both", "neither", "center"}

WindowSizeInputs == (-1)..MaxWin

StepSizeInputs == {None} \cup {Some(v) : v \in 0..MaxStep}

MinPeriodsInputs == {None} \cup {Some(v) : v \in (-1)..MaxMinPeriods}

RECURSIVE SeqsOfLen(_, _)
SeqsOfLen(S, n) ==
    IF n = 0 THEN {<< >>}
    ELSE {Append(s, v) : s \in SeqsOfLen(S, n - 1), v \in S}

SeqsUpTo(S, n) == UNION {SeqsOfLen(S, k) : k \in 0..n}

NonDecreasing(s) == \A k \in 1..(Len(s) - 1) : s[k] <= s[k + 1]

NonIncreasing(s) == \A k \in 1..(Len(s) - 1) : s[k] >= s[k + 1]

StrictlyIncreasing(s) == \A k \in 1..(Len(s) - 1) : s[k] < s[k + 1]

Monotonic(s) == NonDecreasing(s) \/ NonIncreasing(s)

\* The documented input (line 71: "Assume index is monotonic increasing or
\* decreasing"): every monotonic index of length <= MaxN, and every strictly
\* increasing one of length <= MaxLongN.
IndexInputs ==
    {s \in SeqsUpTo(0..MaxVal, MaxN) : Monotonic(s)}
        \cup {s \in SeqsUpTo(0..MaxVal, MaxLongN) : StrictlyIncreasing(s)}

\* An index of arbitrary contents.
AnyIndexInputs == SeqsUpTo(0..MaxAnyVal, MaxN)

\* ------------------------------------------------------------------- state
VARIABLES
    index, window_size, step_size_obj, min_periods_obj, closed,  \* arguments
    pc,                  \* "entry", "sweep", "done" or "fault"
    left_open, right_open, idx_scalar, step_size, min_periods,
    start, end,          \* the two work arrays, positions 0..num_values-1
    window_i, next_index_si, next_index_ei,
    reads,               \* positions of index read by the latest iteration
    ret_start, ret_end   \* the returned pair

vars == <<index, window_size, step_size_obj, min_periods_obj, closed, pc,
          left_open, right_open, idx_scalar, step_size, min_periods,
          start, end, window_i, next_index_si, next_index_ei, reads,
          ret_start, ret_end>>

args == <<index, window_size, step_size_obj, min_periods_obj, closed>>

num_values == Len(index)

\* index[p] of the source: positions are 0-based.
At(idx, p) == idx[p + 1]

Neg(idx) == [k \in 1..Len(idx) |-> 0 - idx[k]]

\* -------------------------------------------------- entry (lines 62 - 84)
ClosedOrDefault(c) == IF c = "None" THEN "left" ELSE c

RightOpen(c) == ClosedOrDefault(c) \notin {"right", "both"}

LeftOpenSwapped(c) == ClosedOrDefault(c) \in {"right", "neither"}

LeftOpen(c) == ClosedOrDefault(c) \notin {"left", "both"}

IdxScalarAscending(idx) == 1

IdxScalar(idx) == IF At(idx, Len(idx) - 1) < At(idx, 0) THEN -1 ELSE 1

MinPeriodsOf(obj) == IF obj # None THEN obj[1] ELSE 0

StepSizeOf(obj) == IF obj # None THEN obj[1] ELSE 1


\* start = np.empty(num_values); start.fill(-1)
StartAlloc(n) == [i \in 0..(n - 1) |-> -1]

\* end = np.empty(num_values): a cell holds no value until it is written, so
\* end is defined on the written cells only; the filter reads the others as
\* arbitrary values (Garbage).
EndAlloc == << >>

GarbageLo == 0 - 9

GarbageHi == 9

Garbage == {GarbageLo, GarbageHi}

\* ------------------------------------------------- sweep (lines 95 - 123)
\* for index_i in range(from, n): if idx_scalar*index[index_i] >
\* idx_scalar*ceiling: result = index_i - 1; break -- with result preset to n - 1.
\* Returns the result and the positions read.
RECURSIVE StepScanOffByOne(_, _, _, _, _, _)
StepScanOffByOne(idx, n, sgn, index_i, index_step_max, seen) ==
    IF index_i >= n THEN [at |-> n - 1, reads |-> seen]
    ELSE IF sgn * At(idx, index_i) >= sgn * index_step_max
         THEN [at |-> index_i - 1, reads |-> seen \cup {index_i}]
         ELSE StepScanOffByOne(idx, n, sgn, index_i + 1, index_step_max,
                               seen \cup {index_i})

RECURSIVE StepScan(_, _, _, _, _, _)
StepScan(idx, n, sgn, index_i, index_step_max, seen) ==
    IF index_i >= n THEN [at |-> n - 1, reads |-> seen]
    ELSE IF sgn * At(idx, index_i) > sgn * index_step_max
         THEN [at |-> index_i - 1, reads |-> seen \cup {index_i}]
         ELSE StepScan(idx, n, sgn, index_i + 1, index_step_max,
                       seen \cup {index_i})

RECURSIVE WindowScanShort(_, _, _, _, _, _)
WindowScanShort(idx, n, sgn, index_i, index_window_max, seen) ==
    IF index_i >= n THEN [at |-> n - 1, reads |-> seen]
    ELSE IF sgn * At(idx, index_i) > sgn * index_window_max
         THEN [at |-> index_i - 2, reads |-> seen \cup {index_i}]
         ELSE WindowScanShort(idx, n, sgn, index_i + 1, index_window_max,
                                seen \cup {index_i})

RECURSIVE WindowScan(_, _, _, _, _, _)
WindowScan(idx, n, sgn, index_i, index_window_max, seen) ==
    IF index_i >= n THEN [at |-> n - 1, reads |-> seen]
    ELSE IF sgn * At(idx, index_i) > sgn * index_window_max
         THEN [at |-> index_i - 1, reads |-> seen \cup {index_i}]
         ELSE WindowScan(idx, n, sgn, index_i + 1, index_window_max,
                         seen \cup {index_i})

\* The cursors and arrays of the sweep, as one record.
SweepInit(n) ==
    [start |-> StartAlloc(n), end |-> EndAlloc, window_i |-> 0,
     next_index_si |-> 0, next_index_ei |-> 0, reads |-> {}]

SweepStepEndNotPast(idx, n, sgn, wsize, ssize, s) ==
    LET index_si == s.next_index_si
        index_window_max == At(idx, index_si) + sgn * (wsize - 1)
        index_step_max == At(idx, index_si) + sgn * (ssize - 1)
        step == StepScan(idx, n, sgn, index_si + 1, index_step_max, {})
        win == WindowScan(idx, n, sgn, s.next_index_ei + 1, index_window_max, {})
        index_step_i == step.at
        index_window_i == win.at
        si == index_step_i + 1
    IN  [start |-> [s.start EXCEPT ![s.window_i] = index_si],
         end |-> [i \in (DOMAIN s.end) \cup {s.window_i} |->
                     IF i = s.window_i THEN index_window_i ELSE s.end[i]],
         window_i |-> s.window_i + 1,
         next_index_si |-> si,
         next_index_ei |-> IF si > index_window_i THEN si
                           ELSE index_window_i,
         reads |-> {index_si} \cup step.reads \cup win.reads]

\* One iteration of the while loop body (lines 96 - 123).
SweepStep(idx, n, sgn, wsize, ssize, s) ==
    LET index_si == s.next_index_si
        index_window_max == At(idx, index_si) + sgn * (wsize - 1)
        index_step_max == At(idx, index_si) + sgn * (ssize - 1)
        step == StepScan(idx, n, sgn, index_si + 1, index_step_max, {})
        win == WindowScan(idx, n, sgn, s.next_index_ei + 1, index_window_max, {})
        index_step_i == step.at
        index_window_i == win.at
        si == index_step_i + 1
    IN  [start |-> [s.start EXCEPT ![s.window_i] = index_si],
         end |-> [i \in (DOMAIN s.end) \cup {s.window_i} |->
                     IF i = s.window_i THEN index_window_i ELSE s.end[i]],
         window_i |-> s.window_i + 1,
         next_index_si |-> si,
         next_index_ei |-> IF si > index_window_i + 1 THEN si
                           ELSE index_window_i + 1,
         reads |-> {index_si} \cup step.reads \cup win.reads]

\* The whole while loop.
RECURSIVE RunSweep(_, _, _, _, _, _)
RunSweep(idx, n, sgn, wsize, ssize, s) ==
    IF s.next_index_ei < n
    THEN RunSweep(idx, n, sgn, wsize, ssize,
                  SweepStep(idx, n, sgn, wsize, ssize, s))
    ELSE s

\* ------------------------------------- filter and return (lines 125 - 138)
\* end with its unwritten cells read as g.
EndRead(e, n, g) == [i \in 0..(n - 1) |-> IF i \in DOMAIN e THEN e[i] ELSE g[i]]

GarbageFills(e, n) == [(0..(n - 1)) \ DOMAIN e -> Garbage]

ValidIdxNoMinPeriods(st, e, n, mp) ==
    [i \in 0..(n - 1) |-> (st[i] >= 0) /\ (st[i] <= e[i])]

ValidIdxNoSentinel(st, e, n, mp) ==
    [i \in 0..(n - 1) |-> (st[i] <= e[i]) /\ ((e[i] - st[i] + 1) >= mp)]

\* valid_idx = (start >= 0) & (start <= end) & ((end - start + 1) >= min_periods)
ValidIdx(st, e, n, mp) ==
    [i \in 0..(n - 1) |->
        (st[i] >= 0) /\ (st[i] <= e[i]) /\ ((e[i] - st[i] + 1) >= mp)]

\* start -= 1 if left_open
AdjustStart(st, lo) == [i \in DOMAIN st |-> IF lo THEN st[i] - 1 ELSE st[i]]

AdjustEndDown(e, ro) == [i \in DOMAIN e |-> IF ro THEN e[i] - 1 ELSE e[i]]

\* end += 1 if right_open
AdjustEnd(e, ro) == [i \in DOMAIN e |-> IF ro THEN e[i] + 1 ELSE e[i]]

\* a[valid_idx]: the cells of a at the positions < n where valid holds, in order.
RECURSIVE Masked(_, _, _)
Masked(a, valid, n) ==
    IF n = 0 THEN << >>
    ELSE IF valid[n - 1] THEN Append(Masked(a, valid, n - 1), a[n - 1])
         ELSE Masked(a, valid, n - 1)

\* Lines 125 - 138 on the arrays the sweep left, with garbage fill g.
Returned(st, e, n, mp, lo, ro, g) ==
    LET full == EndRead(e, n, g)
        valid_idx == ValidIdx(st, full, n, mp)
    IN  [start |-> Masked(AdjustStart(st, lo), valid_idx, n),
         end |-> Masked(AdjustEnd(full, ro), valid_idx, n)]

\* ------------------------------------------------------------------ actions
InitOn(indices) ==
    /\ index \in indices
    /\ window_size \in WindowSizeInputs
    /\ step_size_obj \in StepSizeInputs
    /\ min_periods_obj \in MinPeriodsInputs
    /\ closed \in ClosedInputs
    /\ pc = "entry"
    /\ left_open = FALSE
    /\ right_open = FALSE
    /\ idx_scalar = 1
    /\ step_size = 0
    /\ min_periods = 0
    /\ start = << >>
    /\ end = << >>
    /\ window_i = 0
    /\ next_index_si = 0
    /\ next_index_ei = 0
    /\ reads = {}
    /\ ret_start = << >>
    /\ ret_end = << >>

\* Lines 62 - 92 with num_values >= 1.
Entry ==
    /\ pc = "entry"
    /\ num_values >= 1
    /\ left_open' = LeftOpen(closed)
    /\ right_open' = RightOpen(closed)
    /\ idx_scalar' = IdxScalar(index)
    /\ min_periods' = MinPeriodsOf(min_periods_obj)
    /\ step_size' = StepSizeOf(step_size_obj)
    /\ start' = StartAlloc(num_values)
    /\ end' = EndAlloc
    /\ reads' = {num_values - 1, 0}
    /\ pc' = "sweep"
    /\ UNCHANGED <<args, window_i, next_index_si, next_index_ei, ret_start, ret_end>>

\* Lines 62 - 84 with num_values = 0.  Line 72 reads index[-1] and index[0] of an
\* empty buffer with bounds checking off: the read faults, or yields arbitrary
\* values that compare either way.
EntryEmpty ==
    /\ pc = "entry"
    /\ num_values < 1
    /\ \E outcome \in {"fault", "less", "notless"} :
        /\ reads' = {num_values - 1, 0}
        /\ IF outcome = "fault"
           THEN /\ pc' = "fault"
                /\ left_open' = LeftOpen(closed)
                /\ right_open' = RightOpen(closed)
                /\ UNCHANGED <<idx_scalar, min_periods, step_size, start, end,
                               ret_start, ret_end>>
           ELSE /\ pc' = "done"
                /\ left_open' = LeftOpen(closed)
                /\ right_open' = RightOpen(closed)
                /\ idx_scalar' = (IF outcome = "less" THEN -1 ELSE 1)
                /\ min_periods' = MinPeriodsOf(min_periods_obj)
                /\ step_size' = StepSizeOf(step_size_obj)
                /\ start' = StartAlloc(num_values)
                /\ end' = EndAlloc
                /\ ret_start' = << >>
                /\ ret_end' = << >>
    /\ UNCHANGED <<args, window_i, next_index_si, next_index_ei>>

\* One iteration of the while loop (lines 95 - 123).
Iterate ==
    /\ pc = "sweep"
    /\ next_index_ei < num_values
    /\ LET s == SweepStep(index, num_values, idx_scalar, window_size, step_size,
                          [start |-> start, end |-> end, window_i |-> window_i,
                           next_index_si |-> next_index_si,
                           next_index_ei |-> next_index_ei, reads |-> reads])
       IN  /\ start' = s.start
           /\ end' = s.end
           /\ window_i' = s.window_i
           /\ next_index_si' = s.next_index_si
           /\ next_index_ei' = s.next_index_ei
           /\ reads' = s.reads
    /\ UNCHANGED <<args, pc, left_open, right_open, idx_scalar, step_size,
                   min_periods, ret_start, ret_end>>

\* The loop has ended: filter, adjust, return (lines 125 - 138).  start and end
\* are locals that die with the return; the variables keep what the sweep wrote.
Finish ==
    /\ pc = "sweep"
    /\ ~(next_index_ei < num_values)
    /\ \E g \in GarbageFills(end, num_values) :
        LET r == Returned(start, end, num_values, min_periods, left_open,
                          right_open, g)
        IN  /\ ret_start' = r.start
            /\ ret_end' = r.end
    /\ pc' = "done"
    /\ UNCHANGED <<args, left_open, right_open, idx_scalar, step_size, min_periods,
                   start, end, window_i, next_index_si, next_index_ei, reads>>

Next == Entry \/ EntryEmpty \/ Iterate \/ Finish

Init == InitOn(IndexInputs)

Spec == Init /\ [][Next]_vars

\* The same call on an index of arbitrary contents.
InitAny == InitOn(AnyIndexInputs)

SpecAny == InitAny /\ [][Next]_vars


\* ------------------------------------------------------------------ helpers
Done == pc = "done"

Lo == IF left_open THEN 1 ELSE 0

Ro == IF right_open THEN 1 ELSE 0

\* The bounds of returned window k (1-based) before the open-boundary adjustment.
PreStart(k) == ret_start[k] + Lo

PreEnd(k) == ret_end[k] - Ro

Abs(x) == IF x < 0 THEN 0 - x ELSE x

Upto(a, b) == [k \in 1..(b - a + 1) |-> a + k - 1]

\* A returned sequence as a 0-based array.
AsArray(s) == [i \in 0..(Len(s) - 1) |-> s[i + 1]]

InvalidArgs ==
    \/ closed = "center"
    \/ (step_size_obj # None /\ step_size_obj[1] <= 0)
    \/ window_size < 0
    \/ (min_periods_obj # None /\ min_periods_obj[1] < 0)

\* The call of the function as a whole, on index idx with garbage fill g.
BoundsOf(idx, wsize, sobj, mobj, c, g) ==
    LET n == Len(idx)
        s == RunSweep(idx, n, IdxScalar(idx), wsize, StepSizeOf(sobj), SweepInit(n))
    IN  Returned(s.start, s.end, n, MinPeriodsOf(mobj), LeftOpen(c), RightOpen(c),
                 [i \in (0..(n - 1)) \ DOMAIN s.end |-> g])

\* ------------------------------------------------------------------- claims
\* C1: containment -- for a monotonic index, window_size >= 1 and step_size >= 1,
\* every position inside a returned window (bounds before the open-boundary
\* adjustment) has an index value within window_size of the window's start value.
C1_Containment ==
    (Done /\ Monotonic(index) /\ window_size >= 1 /\ step_size >= 1) =>
        \A k \in 1..Len(ret_start) :
            \A p \in PreStart(k)..PreEnd(k) :
                Abs(At(index, p) - At(index, PreStart(k))) <= window_size

\* C2 (as claimed): with step_size = 1, min_periods = 0 and a strictly increasing
\* index, the returned start has one entry for every position 0..N-1; for
\* [0,1,2,3,4], window_size 3, closed left it is [0,1,2,3,4].
C2_OneWindowPerPosition ==
    (Done /\ step_size = 1 /\ min_periods = 0 /\ StrictlyIncreasing(index)) =>
        /\ Len(ret_start) = num_values
        /\ (index = <<0, 1, 2, 3, 4>> /\ window_size = 3 /\ closed = "left") =>
               ret_start = <<0, 1, 2, 3, 4>>

\* C2 (amended): with step_size = 1, min_periods = 0 and a strictly increasing
\* index of length N >= 1, the returned start has one entry for each of the
\* positions 0..k-1 for some 1 <= k <= N, the last returned window ending at
\* position N-1; for [0,1,2,3,4], window_size 3, closed left the call returns
\* start = [0,1,2] and end = [3,4,5].
C2_WindowsUntilLastPosition ==
    (Done /\ step_size = 1 /\ min_periods = 0 /\ StrictlyIncreasing(index)
          /\ num_values >= 1) =>
        /\ Len(ret_start) \in 1..num_values
        /\ ret_start = Upto(0 - Lo, Len(ret_start) - 1 - Lo)
        /\ PreEnd(Len(ret_end)) = num_values - 1
        /\ (index = <<0, 1, 2, 3, 4>> /\ window_size = 3 /\ closed = "left") =>
               (ret_start = <<0, 1, 2>> /\ ret_end = <<3, 4, 5>>)

C2_Witness ==
    /\ Done
    /\ index = <<0, 1, 2, 3, 4>> /\ window_size = 3 /\ closed = "left"
    /\ step_size = 1 /\ min_periods = 0
    /\ ret_start = <<0, 1, 2>>

\* C3 (as claimed): a call with an invalid argument ends in an error before the
\* sweep begins and returns nothing.
C3_FailFast == InvalidArgs => pc \notin {"sweep", "done"}

\* C3 (amended): invalid arguments are not rejected.  For N >= 1 a call with an
\* unrecognised closed, step_size <= 0, window_size < 0 or min_periods < 0 enters
\* the sweep and returns start and end of equal length; an unrecognised closed
\* sets both left_open and right_open, as 'neither' does.
C3_NoValidation ==
    (InvalidArgs /\ num_values >= 1 /\ pc # "entry") =>
        /\ pc \in {"sweep", "done"}
        /\ (closed = "center") => (left_open /\ right_open)
        /\ Done => Len(ret_start) = Len(ret_end)

C3_Witness ==
    /\ Done /\ closed = "center" /\ window_size < 0
    /\ step_size <= 0 /\ min_periods < 0
    /\ Len(ret_start) >= 2

\* C4: an empty index is not an error and returns two empty sequences.
C4_EmptyInput ==
    (num_values = 0 /\ pc # "entry") =>
        (Done /\ ret_start = << >> /\ ret_end = << >>)

\* C5: the returned sequences have equal length, at most N, and every returned
\* window satisfies 0 <= start <= end < N on the bounds before the open-boundary
\* adjustment.
C5_OutputRange ==
    Done =>
        /\ Len(ret_start) = Len(ret_end)
        /\ Len(ret_start) <= num_values
        /\ \A k \in 1..Len(ret_start) :
               /\ 0 <= PreStart(k)
               /\ PreStart(k) <= PreEnd(k)
               /\ PreEnd(k) < num_values

C5_Witness ==
    /\ Done /\ left_open /\ right_open
    /\ Len(ret_start) >= 2
    /\ Len(ret_start) < num_values

\* C6: an ascending index and its element-wise negation, with the same
\* window_size, step_size, min_periods and closed, return the same (start, end).
C6_DirectionInvariance ==
    (Done /\ NonDecreasing(index) /\ num_values >= 1) =>
        \A g \in Garbage :
            BoundsOf(Neg(index), window_size, step_size_obj, min_periods_obj,
                     closed, g)
                = [start |-> ret_start, end |-> ret_end]

C6_Witness ==
    /\ Done /\ NonDecreasing(index) /\ num_values >= 3
    /\ IdxScalar(Neg(index)) = -1
    /\ Len(ret_start) >= 2
    /\ ret_start[1] + 1 < ret_end[1]

\* C7: no returned window has fewer than min_periods positions, counted on the
\* bounds before the open-boundary adjustment, and every window the sweep wrote
\* whose count is at least min_periods is returned.
C7_MinPeriodsFilter ==
    Done =>
        LET kept == {i \in 0..(window_i - 1) : end[i] - start[i] + 1 >= min_periods}
        IN  /\ \A k \in 1..Len(ret_start) :
                   PreEnd(k) - PreStart(k) + 1 >= min_periods
            /\ Len(ret_start) = Cardinality(kept)
            /\ \A i \in kept :
                   \E k \in 1..Len(ret_start) :
                       PreStart(k) = start[i] /\ PreEnd(k) = end[i]

C7_Witness ==
    /\ Done /\ left_open /\ right_open /\ min_periods >= 2
    /\ Len(ret_start) >= 1
    /\ Len(ret_start) < window_i

\* The validity filter run again on the returned pair.
Refiltered ==
    ValidIdx(AsArray(ret_start), AsArray(ret_end), Len(ret_start), min_periods)

\* C8 (as claimed): for every closed in {left, right, both, neither} the validity
\* filter applied to the returned (start, end) drops no entry.
C8_RefilterDropsNothing ==
    (Done /\ closed \in {"left", "right", "both", "neither"}) =>
        \A i \in 0..(Len(ret_start) - 1) : Refiltered[i]

\* C8 (amended): the validity filter applied to the returned (start, end) drops
\* no entry when closed is left or both; when closed is right or neither it
\* drops exactly the entries whose returned start is -1 (the window that starts
\* at position 0).
C8_RefilterDropsOnlyOpenFirst ==
    (Done /\ closed \in {"left", "right", "both", "neither"}) =>
        \A i \in 0..(Len(ret_start) - 1) :
            Refiltered[i] <=>
                ~(closed \in {"right", "neither"} /\ ret_start[i + 1] = -1)

C8_Witness ==
    /\ Done /\ closed = "right" /\ min_periods >= 1
    /\ Len(ret_start) >= 2
    /\ ret_start[1] = -1
    /\ ~Refiltered[0]
    /\ Refiltered[1]

\* C9: for step_size >= 1 and a monotonic index, each window the sweep writes
\* after the first starts at the smallest position after the previous start whose
\* index value is at least step_size past the previous start's value in the
\* detected direction; the starts are strictly increasing.
C9_StepAdvance ==
    (pc \in {"sweep", "done"} /\ step_size >= 1 /\ Monotonic(index)) =>
        \A i \in 1..(window_i - 1) :
            LET prev == start[i - 1]
                Past(p) == idx_scalar * (At(index, p) - At(index, prev)) >= step_size
            IN  /\ start[i] > prev
                /\ start[i] < num_values
                /\ Past(start[i])
                /\ \A p \in (prev + 1)..(start[i] - 1) : ~Past(p)

C9_Witness ==
    /\ pc = "sweep" /\ step_size >= 2 /\ Monotonic(index)
    /\ idx_scalar = -1
    /\ window_i >= 2
    /\ start[1] >= 2

\* C10: on every iteration of the while loop, for any index contents and
\* parameters, next_index_ei strictly increases, the write cursor and the start
\* position are in 0..N-1, every position of index read is in 0..N-1, and no
\* more than N iterations run.
C10_SweepTerminatesInBounds ==
    [][(pc = "sweep" /\ next_index_ei < num_values) =>
          /\ next_index_ei' > next_index_ei
          /\ window_i \in 0..(num_values - 1)
          /\ next_index_si \in 0..(num_values - 1)
          /\ reads' \subseteq 0..(num_values - 1)
          /\ window_i' <= num_values]_vars

C10_Witness ==
    /\ pc = "sweep" /\ ~Monotonic(index)
    /\ window_i >= 1
    /\ next_index_ei < num_values
    /\ step_size <= 0 /\ window_size < 0

====
